---- MODULE Spec2Model ----
(***************************************************************************)
(* Theseus and the Minotaur (src/src/lib.rs): the board parser             *)
(* Game::from_board, the turn engine Game::theseus_move /                  *)
(* Game::minotaur_move and Game::status, over the static Grid, and the     *)
(* command reader input.                                                   *)
(*                                                                         *)
(* A board text is a sequence of characters (one-character strings), rows  *)
(* separated by "\n".  Rows and columns are 0-based as in the source;      *)
(* TLA+ sequences are 1-based, hence the +1 at every sequence access.      *)
(* Option<T> is a sequence of length 0 (None) or 1 (Some).                 *)
(***************************************************************************)
EXTENDS Integers, Sequences, FiniteSets, TLC

VARIABLES
    board,   \* the &str handed to from_board
    result,  \* what from_board returned: [kind, ch]; kind "none" before the call
    game,    \* the Game (meaningful when result.kind = "Ok")
    last,    \* the last call: [op, command, pre], pre = the Game before the call
    session, \* a scripted session: [script, played, full_turns]
    io       \* the command source: [stdin, called, before, ret]

vars == <<board, result, game, last, session, io>>

---------------------------------------------------------------------------
(* Bounds of the model.                                                    *)

\* most rows of a board text
MaxRows == 2
\* most characters of one row
MaxCols == 3
\* most tiles (height * width) of a well-formed maze
MaxCells == 6
\* most non-newline characters of an arbitrary board text
MaxChars == 4
\* most commands of a scripted session
MaxTurns == 3
\* most lines of a command source
MaxInputLines == 2
\* the capacity of the BufReader input puts around its source (the
\* library's default is 8 KiB; what matters is that it exceeds one line)
BufCap == 4

---------------------------------------------------------------------------
(* Characters.                                                             *)

NL == "\n"
\* "#" stands for every character outside the board alphabet
Alphabet == {"X", " ", "G", "T", "M", "#"}
Commands == {"Up", "Down", "Left", "Right", "Skip"}

None == << >>
Some(x) == << x >>
IsSome(o) == Len(o) = 1
Unwrap(o) == o[1]

---------------------------------------------------------------------------
(* Grid.                                                                   *)

Grid_new(width, height, cells) ==
    [width |-> width, height |-> height, cells |-> cells]

in_bounds(grid, row, col) == row < grid.height /\ col < grid.width

\* idx with the row stride taken from the height
idx_stride_height(grid, row, col) ==
    IF in_bounds(grid, row, col) THEN Some(row * grid.height + col) ELSE None

idx(grid, row, col) ==
    IF in_bounds(grid, row, col) THEN Some(row * grid.width + col) ELSE None

\* self.idx(row, col).map(|i| self.cells[i])
get(grid, row, col) ==
    IF IsSome(idx(grid, row, col))
    THEN Some(grid.cells[Unwrap(idx(grid, row, col)) + 1])
    ELSE None

Grid_is_wall(grid, row, col) == get(grid, row, col) = Some("X")
Grid_is_goal(grid, row, col) == get(grid, row, col) = Some("G")
Grid_is_empty(grid, row, col) == get(grid, row, col) = Some(" ")

---------------------------------------------------------------------------
(* str::lines as from_board uses it: split at "\n"; a final empty piece    *)
(* (text empty, or ending in "\n") is not a line.                          *)

RECURSIVE SplitNL(_, _)
\* the pieces of text between newlines, cur being the piece in progress
SplitNL(text, cur) ==
    IF text = << >> THEN << cur >>
    ELSE IF Head(text) = NL THEN << cur >> \o SplitNL(Tail(text), << >>)
    ELSE SplitNL(Tail(text), Append(cur, Head(text)))

Lines(text) ==
    LET pieces == SplitNL(text, << >>)
    IN  IF pieces[Len(pieces)] = << >>
        THEN SubSeq(pieces, 1, Len(pieces) - 1)
        ELSE pieces

---------------------------------------------------------------------------
(* Game::from_board.                                                       *)

NoGame ==
    [grid |-> Grid_new(0, 0, << >>),
     theseus_row |-> 0, theseus_col |-> 0,
     minotaur_row |-> 0, minotaur_col |-> 0,
     goal_row |-> 0, goal_col |-> 0]

Err(kind) == [kind |-> kind, ch |-> ""]
InvalidCharacter(c) == [kind |-> "InvalidCharacter", ch |-> c]
NoErr == Err("Ok")

\* the scan's locals: cells, t_pos, m_pos, g_pos, and the error returned, if any
Scan0 == [err |-> NoErr, cells |-> << >>, t_pos |-> None, m_pos |-> None, g_pos |-> None]

Fail(st, e) == [st EXCEPT !.err = e]

\* RowWidthOk with the comparison weakened: only longer rows are rejected
RowWidthOk_at_most(line, width) == Len(line) <= width

\* for (r, line): the row's character count against the width of row 0
RowWidthOk(line, width) == Len(line) = width

\* the arms of the inner match, one per character of the alphabet
OnWall(st, r, c) == [st EXCEPT !.cells = Append(@, "X")]
OnFloor(st, r, c) == [st EXCEPT !.cells = Append(@, " ")]

\* OnGoal without the g_pos.is_some() test: a second G replaces the first
OnGoal_overwrite(st, r, c) ==
    [st EXCEPT !.g_pos = Some(<<r, c>>), !.cells = Append(@, "G")]

OnGoal(st, r, c) ==
    IF IsSome(st.g_pos) THEN Fail(st, Err("MultipleGoal"))
    ELSE [st EXCEPT !.g_pos = Some(<<r, c>>), !.cells = Append(@, "G")]

\* OnTheseus recording (c, r) for (r, c)
OnTheseus_transposed(st, r, c) ==
    IF IsSome(st.t_pos) THEN Fail(st, Err("MultipleTheseus"))
    ELSE [st EXCEPT !.t_pos = Some(<<c, r>>), !.cells = Append(@, " ")]

OnTheseus(st, r, c) ==
    IF IsSome(st.t_pos) THEN Fail(st, Err("MultipleTheseus"))
    ELSE [st EXCEPT !.t_pos = Some(<<r, c>>), !.cells = Append(@, " ")]

\* OnMinotaur storing the marker itself in the static grid
OnMinotaur_stores_marker(st, r, c) ==
    IF IsSome(st.m_pos) THEN Fail(st, Err("MultipleMinotaur"))
    ELSE [st EXCEPT !.m_pos = Some(<<r, c>>), !.cells = Append(@, "M")]

OnMinotaur(st, r, c) ==
    IF IsSome(st.m_pos) THEN Fail(st, Err("MultipleMinotaur"))
    ELSE [st EXCEPT !.m_pos = Some(<<r, c>>), !.cells = Append(@, " ")]

\* match ch { ... }
OnChar(st, r, c, ch) ==
    CASE ch = "X" -> OnWall(st, r, c)
      [] ch = "G" -> OnGoal(st, r, c)
      [] ch = "T" -> OnTheseus(st, r, c)
      [] ch = "M" -> OnMinotaur(st, r, c)
      [] ch = " " -> OnFloor(st, r, c)
      [] OTHER    -> Fail(st, InvalidCharacter(ch))

RECURSIVE ScanLine(_, _, _, _)
\* for (c, ch) in line.chars().enumerate(), from column c on
ScanLine(st, line, r, c) ==
    IF c >= Len(line) THEN st
    ELSE LET nxt == OnChar(st, r, c, line[c + 1])
         IN  IF nxt.err # NoErr THEN nxt ELSE ScanLine(nxt, line, r, c + 1)

RECURSIVE ScanRows(_, _, _, _)
\* for (r, line) in lines.iter().enumerate(), from row r on
ScanRows(st, lines, width, r) ==
    IF r >= Len(lines) THEN st
    ELSE IF ~RowWidthOk(lines[r + 1], width) THEN Fail(st, Err("InvalidSize"))
    ELSE LET nxt == ScanLine(st, lines[r + 1], r, 0)
         IN  IF nxt.err # NoErr THEN nxt ELSE ScanRows(nxt, lines, width, r + 1)

\* MissingMarker asking for the Minotaur before Theseus
MissingMarker_minotaur_first(st) ==
    IF ~IsSome(st.m_pos) THEN Err("NoMinotaur")
    ELSE IF ~IsSome(st.t_pos) THEN Err("NoTheseus")
    ELSE IF ~IsSome(st.g_pos) THEN Err("NoGoal")
    ELSE NoErr

\* the three ok_or(...)? after the scan
MissingMarker(st) ==
    IF ~IsSome(st.t_pos) THEN Err("NoTheseus")
    ELSE IF ~IsSome(st.m_pos) THEN Err("NoMinotaur")
    ELSE IF ~IsSome(st.g_pos) THEN Err("NoGoal")
    ELSE NoErr

\* MakeGame with the Minotaur's position taken from g_pos
MakeGame_goal_as_minotaur(st, width, height) ==
    [grid |-> Grid_new(width, height, st.cells),
     theseus_row |-> Unwrap(st.t_pos)[1], theseus_col |-> Unwrap(st.t_pos)[2],
     minotaur_row |-> Unwrap(st.g_pos)[1], minotaur_col |-> Unwrap(st.g_pos)[2],
     goal_row |-> Unwrap(st.g_pos)[1], goal_col |-> Unwrap(st.g_pos)[2]]

\* Ok(Game { ... })
MakeGame(st, width, height) ==
    [grid |-> Grid_new(width, height, st.cells),
     theseus_row |-> Unwrap(st.t_pos)[1], theseus_col |-> Unwrap(st.t_pos)[2],
     minotaur_row |-> Unwrap(st.m_pos)[1], minotaur_col |-> Unwrap(st.m_pos)[2],
     goal_row |-> Unwrap(st.g_pos)[1], goal_col |-> Unwrap(st.g_pos)[2]]

\* from_board(board): [res, game]
from_board(text) ==
    LET lines == Lines(text)
        Failed(e) == [res |-> e, game |-> NoGame]
    IN  IF Len(lines) = 0 THEN Failed(Err("InvalidSize"))
        ELSE LET width == Len(lines[1])
                 height == Len(lines)
             IN  IF width = 0 THEN Failed(Err("InvalidSize"))
                 ELSE LET st == ScanRows(Scan0, lines, width, 0)
                      IN  IF st.err # NoErr THEN Failed(st.err)
                          ELSE IF MissingMarker(st) # NoErr THEN Failed(MissingMarker(st))
                          ELSE [res |-> NoErr, game |-> MakeGame(st, width, height)]

---------------------------------------------------------------------------
(* The board texts the model starts from.                                  *)

RECURSIVE Sum(_)
Sum(shape) == IF Len(shape) = 0 THEN 0 ELSE Head(shape) + Sum(Tail(shape))

\* the row widths of an arbitrary text of k rows: each at most MaxCols, at
\* most MaxChars together
Shapes(k) == {shape \in [1..k -> 0..MaxCols] : Sum(shape) <= MaxChars}

RECURSIVE Join(_)
\* the rows with a newline between them
Join(lines) ==
    IF Len(lines) = 0 THEN << >>
    ELSE IF Len(lines) = 1 THEN lines[1]
    ELSE lines[1] \o << NL >> \o Join(Tail(lines))

RECURSIVE Cut(_, _)
\* the characters chars cut into rows of the widths shape
Cut(shape, chars) ==
    IF Len(shape) = 0 THEN << >>
    ELSE << SubSeq(chars, 1, Head(shape)) >>
            \o Cut(Tail(shape), SubSeq(chars, Head(shape) + 1, Len(chars)))

\* an arbitrary text: ragged or empty rows, any character, with or without
\* a final newline
TextBoard(shape, chars, final_newline) ==
    Join(Cut(shape, chars)) \o (IF final_newline THEN << NL >> ELSE << >>)

\* the h x w maze with T, M, G at the cell indexes t, m, g and wall or floor
\* elsewhere
Maze(h, w, t, m, g, tiles) ==
    [r \in 1..h |->
        [c \in 1..w |->
            LET i == (r - 1) * w + c
            IN  IF i = t THEN "T" ELSE IF i = m THEN "M" ELSE IF i = g THEN "G"
                ELSE tiles[i]]]

\* where T, M and G may stand in a maze of n tiles: three different cells
Placements(n) ==
    {q \in (1..n) \X (1..n) \X (1..n) : q[1] # q[2] /\ q[1] # q[3] /\ q[2] # q[3]}

---------------------------------------------------------------------------
(* Initial state and the call of from_board.                               *)

NoCall == [op |-> "none", command |-> "none", pre |-> NoGame]
\* no script: the calls are made in any order, with any command
NoSession == [script |-> << >>, played |-> 0, full_turns |-> FALSE]
\* no command source
NoInput == [stdin |-> << >>, called |-> FALSE, before |-> << >>, ret |-> None]

\* board is a well-formed maze of at most MaxCells tiles
InitMaze ==
    \E h \in 1..MaxRows, w \in 1..MaxCols :
        /\ h * w <= MaxCells
        /\ \E p \in Placements(h * w), tiles \in [1..(h * w) -> {"X", " "}] :
                board = Join(Maze(h, w, p[1], p[2], p[3], tiles))

\* board is an arbitrary text of at most MaxRows rows
InitText ==
    \E k \in 0..MaxRows :
        \E shape \in Shapes(k) :
            \E chars \in [1..Sum(shape) -> Alphabet], final_newline \in BOOLEAN :
                board = TextBoard(shape, chars, final_newline)

Init ==
    /\ InitMaze \/ InitText
    /\ result = Err("none")
    /\ game = NoGame
    /\ last = NoCall
    /\ session = NoSession
    /\ io = NoInput

FromBoard ==
    /\ result.kind = "none"
    /\ result' = from_board(board).res
    /\ game' = from_board(board).game
    /\ last' = [op |-> "from_board", command |-> "none", pre |-> NoGame]
    /\ UNCHANGED <<board, session, io>>

---------------------------------------------------------------------------
(* Game::theseus_move.                                                     *)

\* Delta with rows growing upward
Delta_rows_upward(command) ==
    CASE command = "Up"    -> <<1, 0>>
      [] command = "Down"  -> <<-1, 0>>
      [] command = "Left"  -> <<0, -1>>
      [] command = "Right" -> <<0, 1>>
      [] command = "Skip"  -> <<0, 0>>

\* Delta with Skip taken for Down
Delta_skip_moves(command) ==
    CASE command = "Up"    -> <<-1, 0>>
      [] command = "Down"  -> <<1, 0>>
      [] command = "Left"  -> <<0, -1>>
      [] command = "Right" -> <<0, 1>>
      [] command = "Skip"  -> <<1, 0>>

\* match command { ... }: (dr, dc)
Delta(command) ==
    CASE command = "Up"    -> <<-1, 0>>
      [] command = "Down"  -> <<1, 0>>
      [] command = "Left"  -> <<0, -1>>
      [] command = "Right" -> <<0, 1>>
      [] command = "Skip"  -> <<0, 0>>

\* theseus_move without the wall test
theseus_move_through_walls(g, command) ==
    LET new_r == g.theseus_row + Delta(command)[1]
        new_c == g.theseus_col + Delta(command)[2]
    IN  IF new_r < 0 \/ new_c < 0 THEN g
        ELSE IF in_bounds(g.grid, new_r, new_c)
             THEN [g EXCEPT !.theseus_row = new_r, !.theseus_col = new_c]
             ELSE g

theseus_move(g, command) ==
    LET new_r == g.theseus_row + Delta(command)[1]
        new_c == g.theseus_col + Delta(command)[2]
    IN  IF new_r < 0 \/ new_c < 0 THEN g
        ELSE IF in_bounds(g.grid, new_r, new_c) /\ ~Grid_is_wall(g.grid, new_r, new_c)
             THEN [g EXCEPT !.theseus_row = new_r, !.theseus_col = new_c]
             ELSE g

\* the call game.theseus_move(command)
TheseusCall(command) ==
    /\ result.kind = "Ok"
    /\ game' = theseus_move(game, command)
    /\ last' = [op |-> "theseus_move", command |-> command, pre |-> game]
    /\ UNCHANGED <<board, result, io>>

TheseusMove(command) ==
    /\ TheseusCall(command)
    /\ UNCHANGED session

---------------------------------------------------------------------------
(* Game::minotaur_move.                                                    *)

\* the closure try_move: Some((r, c)) when (r, c) is in bounds and no wall
try_move(g, r, c) ==
    IF r < 0 \/ c < 0 THEN None
    ELSE IF in_bounds(g.grid, r, c) /\ ~Grid_is_wall(g.grid, r, c) THEN Some(<<r, c>>)
    ELSE None

\* HorizontalStep with the two directions exchanged
HorizontalStep_away(g) ==
    LET tx == g.theseus_col
        mx == g.minotaur_col
        my == g.minotaur_row
    IN  IF tx < mx THEN try_move(g, my, mx + 1)
        ELSE IF tx > mx THEN try_move(g, my, mx - 1)
        ELSE None

\* 1) the horizontal move that decreases |tx - mx|, when it is possible
HorizontalStep(g) ==
    LET tx == g.theseus_col
        mx == g.minotaur_col
        my == g.minotaur_row
    IN  IF tx < mx THEN try_move(g, my, mx - 1)
        ELSE IF tx > mx THEN try_move(g, my, mx + 1)
        ELSE None

\* 2) the vertical move that decreases |ty - my|, when it is possible
VerticalStep(g) ==
    LET ty == g.theseus_row
        mx == g.minotaur_col
        my == g.minotaur_row
    IN  IF ty < my THEN try_move(g, my - 1, mx)
        ELSE IF ty > my THEN try_move(g, my + 1, mx)
        ELSE None

\* MoveMinotaur writing the row into Theseus's field
MoveMinotaur_writes_theseus(g, to) ==
    [g EXCEPT !.theseus_row = Unwrap(to)[1], !.minotaur_col = Unwrap(to)[2]]

MoveMinotaur(g, to) ==
    [g EXCEPT !.minotaur_row = Unwrap(to)[1], !.minotaur_col = Unwrap(to)[2]]

\* minotaur_move trying the vertical step first
minotaur_move_vertical_first(g) ==
    IF IsSome(VerticalStep(g)) THEN MoveMinotaur(g, VerticalStep(g))
    ELSE IF IsSome(HorizontalStep(g)) THEN MoveMinotaur(g, HorizontalStep(g))
    ELSE g

\* minotaur_move giving up when the attempted horizontal step is blocked
minotaur_move_no_fallback(g) ==
    IF g.theseus_col # g.minotaur_col
    THEN IF IsSome(HorizontalStep(g)) THEN MoveMinotaur(g, HorizontalStep(g)) ELSE g
    ELSE IF IsSome(VerticalStep(g)) THEN MoveMinotaur(g, VerticalStep(g))
    ELSE g

minotaur_move(g) ==
    IF IsSome(HorizontalStep(g)) THEN MoveMinotaur(g, HorizontalStep(g))
    ELSE IF IsSome(VerticalStep(g)) THEN MoveMinotaur(g, VerticalStep(g))
    ELSE g

MinotaurMove ==
    /\ result.kind = "Ok"
    /\ game' = minotaur_move(game)
    /\ last' = [op |-> "minotaur_move", command |-> "none", pre |-> game]
    /\ UNCHANGED <<board, result, session, io>>

RECURSIVE Chase(_, _)
\* n calls of minotaur_move in a row, Theseus standing still
Chase(g, n) == IF n = 0 THEN g ELSE Chase(minotaur_move(g), n - 1)

---------------------------------------------------------------------------
(* Game::status.                                                           *)

\* status testing Win before Lose
status_win_first(g) ==
    IF g.theseus_row = g.goal_row /\ g.theseus_col = g.goal_col THEN "Win"
    ELSE IF g.theseus_row = g.minotaur_row /\ g.theseus_col = g.minotaur_col THEN "Lose"
    ELSE "Continue"

status(g) ==
    IF g.theseus_row = g.minotaur_row /\ g.theseus_col = g.minotaur_col THEN "Lose"
    ELSE IF g.theseus_row = g.goal_row /\ g.theseus_col = g.goal_col THEN "Win"
    ELSE "Continue"

---------------------------------------------------------------------------
(* The derived queries of Game.                                            *)

Game_is_theseus(g, row, col) == g.theseus_row = row /\ g.theseus_col = col
Game_is_minotaur(g, row, col) == g.minotaur_row = row /\ g.minotaur_col = col
Game_is_wall(g, row, col) == Grid_is_wall(g.grid, row, col)
Game_is_goal(g, row, col) == Grid_is_goal(g.grid, row, col)

\* Game::is_empty answering from the stored tile alone
Game_is_empty_stored_tile(g, row, col) == Grid_is_empty(g.grid, row, col)

Game_is_empty(g, row, col) ==
    /\ ~Game_is_theseus(g, row, col)
    /\ ~Game_is_minotaur(g, row, col)
    /\ ~Game_is_wall(g, row, col)
    /\ ~Game_is_goal(g, row, col)

---------------------------------------------------------------------------
(* input: one line of the source, decoded to a Command.                    *)

\* the letters of the model's input texts, lower and upper case
Lowers == <<"a", "d", "e", "f", "g", "h", "i", "k", "l", "n", "o", "p", "q", "r", "s", "t", "u", "w", "x">>
Uppers == <<"A", "D", "E", "F", "G", "H", "I", "K", "L", "N", "O", "P", "Q", "R", "S", "T", "U", "W", "X">>
Letter(c, table) == CHOOSE i \in 1..Len(table) : table[i] = c
IsIn(c, table) == \E i \in 1..Len(table) : table[i] = c

\* char::is_whitespace on the model's characters
Whitespace == {" ", "\t", "\r", "\n"}

RECURSIVE trim_start(_)
trim_start(str) ==
    IF Len(str) > 0 /\ Head(str) \in Whitespace THEN trim_start(Tail(str)) ELSE str

RECURSIVE trim_end(_)
trim_end(str) ==
    IF Len(str) > 0 /\ str[Len(str)] \in Whitespace
    THEN trim_end(SubSeq(str, 1, Len(str) - 1))
    ELSE str

\* str::trim
trim(str) == trim_end(trim_start(str))

\* str::to_lowercase
to_lowercase(str) ==
    [i \in 1..Len(str) |->
        IF IsIn(str[i], Uppers) THEN Lowers[Letter(str[i], Uppers)] ELSE str[i]]

\* Normalize without the trim
Normalize_no_trim(line) == to_lowercase(line)

\* let s = line.trim().to_lowercase()
Normalize(line) == to_lowercase(trim(line))

\* match s.as_str() { ... }
Decode(str) ==
    CASE str \in {<<"w">>, <<"u", "p">>} -> Some("Up")
      [] str \in {<<"s">>, <<"d", "o", "w", "n">>} -> Some("Down")
      [] str \in {<<"a">>, <<"l", "e", "f", "t">>} -> Some("Left")
      [] str \in {<<"d">>, <<"r", "i", "g", "h", "t">>} -> Some("Right")
      [] str \in {<< >>, <<"w", "a", "i", "t">>, <<"s", "k", "i", "p">>, <<".">>} -> Some("Skip")
      [] str \in {<<"q">>, <<"q", "u", "i", "t">>, <<"e", "x", "i", "t">>} -> None
      [] OTHER -> None

RECURSIVE read_line(_)
\* BufRead::read_line: the characters up to and with the first newline, or
\* all of them when there is none
read_line(stdin) ==
    IF Len(stdin) = 0 THEN << >>
    ELSE IF Head(stdin) = NL THEN << NL >>
    ELSE << Head(stdin) >> \o read_line(Tail(stdin))

\* what input returns on a source holding stdin
input(stdin) ==
    LET line == read_line(stdin)
    IN  IF Len(line) = 0 THEN None ELSE Decode(Normalize(line))

\* how many characters the BufReader may have taken from the source when
\* read_line returns: it fills its buffer with whatever one read of the
\* source delivers, at most BufCap characters, until the buffer holds a
\* newline or the source is at its end; what the buffer holds beyond the
\* line goes with the BufReader when input returns
Taken(stdin) ==
    LET n == Len(read_line(stdin))
        most == IF n + BufCap - 1 < Len(stdin) THEN n + BufCap - 1 ELSE Len(stdin)
    IN  IF n = 0 THEN {0} ELSE n..most

Input ==
    /\ \E n \in Taken(io.stdin) :
        io' = [stdin |-> SubSeq(io.stdin, n + 1, Len(io.stdin)),
               called |-> TRUE,
               before |-> io.stdin,
               ret |-> input(io.stdin)]
    /\ UNCHANGED <<board, result, game, last, session>>

\* the texts a line of the source may hold
InputWords ==
    {<<"w">>,
     <<"u", "p">>,
     <<"s">>,
     <<"d", "o", "w", "n">>,
     <<"a">>,
     <<"l", "e", "f", "t">>,
     <<"d">>,
     <<"r", "i", "g", "h", "t">>,
     << >>,
     <<"w", "a", "i", "t">>,
     <<"s", "k", "i", "p">>,
     <<".">>,
     <<"q">>,
     <<"q", "u", "i", "t">>,
     <<"e", "x", "i", "t">>,
     <<"x">>,
     <<"w", "w">>,
     <<"u", " ", "p">>,
     <<"g", "o">>}

\* a word as typed: in lower case, in upper case or capitalized, bare or
\* with whitespace around it
Typed(word, case, pad) ==
    LET up(c) == IF IsIn(c, Lowers) THEN Uppers[Letter(c, Lowers)] ELSE c
        cased == [i \in 1..Len(word) |->
                    IF case = "upper" \/ (case = "capital" /\ i = 1)
                    THEN up(word[i]) ELSE word[i]]
    IN  CASE pad = "none"  -> cased
          [] pad = "left"  -> <<" ">> \o cased
          [] pad = "right" -> cased \o <<"\t">>
          [] pad = "both"  -> <<" ">> \o cased \o <<"\r">>

\* the texts of the lines after the first: one per outcome of the match
LaterWords ==
    {<<"w">>, <<"s">>, <<"l", "e", "f", "t">>, <<"d">>, << >>, <<"q">>, <<"g", "o">>}

RECURSIVE PlainLines(_)
\* the lines after the first, typed plainly
PlainLines(words) ==
    IF Len(words) = 0 THEN << >>
    ELSE << NL >> \o Head(words) \o PlainLines(Tail(words))

\* the source holds nothing, or a first line typed in any way and further
\* lines typed plainly, the last line with or without its newline
InputInit ==
    /\ board = << >>
    /\ result = Err("none")
    /\ game = NoGame
    /\ last = NoCall
    /\ session = NoSession
    /\ \/ io = NoInput
       \/ \E k \in 1..MaxInputLines :
            \E word \in InputWords, case \in {"lower", "upper", "capital"},
               pad \in {"none", "left", "right", "both"},
               more \in [1..(k - 1) -> LaterWords], final_newline \in BOOLEAN :
                io = [NoInput EXCEPT
                        !.stdin = Typed(word, case, pad) \o PlainLines(more)
                                    \o (IF final_newline THEN << NL >> ELSE << >>)]

InputNext == Input

InputSpec == InputInit /\ [][InputNext]_vars

---------------------------------------------------------------------------
(* Specifications.                                                         *)

\* any sequence of calls on the parsed Game
Next ==
    \/ FromBoard
    \/ \E command \in Commands : TheseusMove(command)
    \/ MinotaurMove

Spec == Init /\ [][Next]_vars

\* the same calls, minotaur_move being called again and again (once a turn)
ChaseInit ==
    /\ InitMaze
    /\ result = Err("none")
    /\ game = NoGame
    /\ last = NoCall
    /\ session = NoSession
    /\ io = NoInput

ChaseSpec == ChaseInit /\ [][Next]_vars /\ WF_vars(MinotaurMove)

\* the caller's turn loop: theseus_move, then minotaur_move, then status
TurnTheseus ==
    /\ last.op \in {"from_board", "minotaur_move"}
    /\ \E command \in Commands : TheseusMove(command)

TurnMinotaur ==
    /\ last.op = "theseus_move"
    /\ MinotaurMove

TurnNext ==
    \/ FromBoard
    \/ TurnTheseus
    \/ TurnMinotaur

TurnSpec == Init /\ [][TurnNext]_vars

---------------------------------------------------------------------------
(* A scripted session on the board of the end-to-end scenario: the         *)
(* commands of the script are played in order, either by theseus_move      *)
(* alone or as full turns (theseus_move, minotaur_move, status).           *)

ScenarioBoard ==
    Join(<< <<"X", "X", "X", "X", "X">>,
            <<"X", "T", " ", " ", "X">>,
            <<"X", " ", "X", " ", "X">>,
            <<"X", " ", " ", "M", "X">>,
            <<"X", " ", " ", "G", "X">>,
            <<"X", "X", "X", "X", "X">> >>)

Scripts == UNION {[1..n -> Commands] : n \in 0..MaxTurns}

ScenarioInit ==
    /\ board = ScenarioBoard
    /\ result = Err("none")
    /\ game = NoGame
    /\ last = NoCall
    /\ session \in [script : Scripts, played : {0}, full_turns : BOOLEAN]
    /\ io = NoInput

\* the next command of the script goes to theseus_move
ScriptTheseus ==
    /\ session.played < Len(session.script)
    /\ session.full_turns => last.op # "theseus_move"
    /\ TheseusCall(session.script[session.played + 1])
    /\ session' = [session EXCEPT !.played = @ + 1]

\* the turn goes on with minotaur_move
ScriptMinotaur ==
    /\ session.full_turns
    /\ last.op = "theseus_move"
    /\ MinotaurMove

ScenarioNext ==
    \/ FromBoard
    \/ ScriptTheseus
    \/ ScriptMinotaur

ScenarioSpec == ScenarioInit /\ [][ScenarioNext]_vars

---------------------------------------------------------------------------
(* Vocabulary of the properties.                                           *)

Parsed == result.kind # "none"
Playing == result.kind = "Ok"

Theseus == <<game.theseus_row, game.theseus_col>>
Minotaur == <<game.minotaur_row, game.minotaur_col>>
Goal == <<game.goal_row, game.goal_col>>
PreTheseus == <<last.pre.theseus_row, last.pre.theseus_col>>
PreMinotaur == <<last.pre.minotaur_row, last.pre.minotaur_col>>

\* the tile of the stored grid at p, p inside the grid
TileAt(p) == game.grid.cells[p[1] * game.grid.width + p[2] + 1]
InsideGrid(p) ==
    /\ p[1] \in 0..(game.grid.height - 1)
    /\ p[2] \in 0..(game.grid.width - 1)
\* p is a tile a token may stand on
Enterable(p) == InsideGrid(p) /\ TileAt(p) # "X"

Sgn(x) == IF x < 0 THEN -1 ELSE IF x > 0 THEN 1 ELSE 0

\* the board text as the scan sees it: its rows and the (row, column) of
\* its characters
CellsOf(rows) ==
    UNION {{<<r, c>> : c \in 0..(Len(rows[r + 1]) - 1)} : r \in 0..(Len(rows) - 1)}
Text == [rows |-> Lines(board), cells |-> CellsOf(Lines(board))]

Ch(t, p) == t.rows[p[1] + 1][p[2] + 1]
RowIds(t) == 0..(Len(t.rows) - 1)
BadRow(t, r) == Len(t.rows[r + 1]) # Len(t.rows[1])
\* p comes before q in scan order
Before(p, q) == p[1] < q[1] \/ (p[1] = q[1] /\ p[2] < q[2])

Markers == {"G", "T", "M"}
BoardChars == {"X", " ", "G", "T", "M"}
IsDuplicate(t, p) ==
    Ch(t, p) \in Markers /\ \E q \in t.cells : Before(q, p) /\ Ch(t, q) = Ch(t, p)
Offending(t, p) == Ch(t, p) \notin BoardChars \/ IsDuplicate(t, p)
Has(t, k) == \E p \in t.cells : Ch(t, p) = k

\* non-empty, rectangular, only board characters, no marker twice
CleanText(t) ==
    /\ Len(t.rows) > 0
    /\ Len(t.rows[1]) > 0
    /\ \A r \in RowIds(t) : ~BadRow(t, r)
    /\ \A p \in t.cells : ~Offending(t, p)

\* the state from_board returned, before any move
JustParsed == last.op = "from_board"

---------------------------------------------------------------------------
(* C1: in every state reachable from a Game returned by from_board by any  *)
(* sequence of theseus_move and minotaur_move calls, the Theseus, Minotaur *)
(* and Goal positions are inside the grid and none is on a Wall tile.      *)
C1_PositionsValid ==
    Playing => \A p \in {Theseus, Minotaur, Goal} : InsideGrid(p) /\ TileAt(p) # "X"

\* both tokens have moved: the Minotaur stands on the Goal tile and Theseus
\* has left his start tile
C1_Witness ==
    /\ Playing
    /\ last.op = "minotaur_move"
    /\ Minotaur = Goal
    /\ Ch(Text, Theseus) # "T"

(* C2: for every command in {Up, Down, Left, Right}, theseus_move sets     *)
(* Theseus to the candidate tile (position plus the unit delta Up (-1,0),  *)
(* Down (+1,0), Left (0,-1), Right (0,+1)) when it is in bounds and not a  *)
(* Wall, and leaves Theseus exactly where he was otherwise; the call       *)
(* produces no error (the Game stays the Ok result of from_board).         *)
C2_Candidate ==
    CASE last.command = "Up"    -> <<PreTheseus[1] - 1, PreTheseus[2]>>
      [] last.command = "Down"  -> <<PreTheseus[1] + 1, PreTheseus[2]>>
      [] last.command = "Left"  -> <<PreTheseus[1], PreTheseus[2] - 1>>
      [] last.command = "Right" -> <<PreTheseus[1], PreTheseus[2] + 1>>

C2_TheseusMove ==
    (last.op = "theseus_move" /\ last.command \in {"Up", "Down", "Left", "Right"})
        => /\ Playing
           /\ Theseus = IF Enterable(C2_Candidate) THEN C2_Candidate ELSE PreTheseus

\* a move into a wall, rejected
C2_Witness ==
    /\ last.op = "theseus_move"
    /\ last.command = "Left"
    /\ InsideGrid(C2_Candidate)
    /\ TileAt(C2_Candidate) = "X"
    /\ Theseus = PreTheseus

(* C3: status() is Lose exactly when Theseus and the Minotaur share a      *)
(* tile, Win exactly when Theseus is on the Goal and not on the Minotaur's *)
(* tile, Continue otherwise; with all three on one tile it is Lose.        *)
C3_Status ==
    Playing =>
        /\ status(game) = "Lose" <=> Theseus = Minotaur
        /\ status(game) = "Win" <=> (Theseus = Goal /\ Theseus # Minotaur)
        /\ status(game) = "Continue" <=> (Theseus # Goal /\ Theseus # Minotaur)

\* Theseus, the Minotaur and the Goal on one tile: Lose
C3_Witness ==
    /\ Playing
    /\ Theseus = Minotaur
    /\ Theseus = Goal
    /\ status(game) = "Lose"

(* C4, as claimed: in no state reached from a parsed board by turns        *)
(* (theseus_move then minotaur_move) do Theseus, the Minotaur and the Goal *)
(* occupy the same tile.                                                   *)
C4_NeverAllThree ==
    Playing => ~(Theseus = Minotaur /\ Theseus = Goal)

(* C4, amended: in the Game from_board returns, Theseus, the Minotaur and  *)
(* the Goal are on three different tiles, so the coincidence cannot happen *)
(* before a move is made.                                                  *)
C4_StartTilesDistinct ==
    (Playing /\ JustParsed)
        => (Theseus # Minotaur /\ Theseus # Goal /\ Minotaur # Goal)

\* a parsed board with the Goal between Theseus and the Minotaur
C4_Witness ==
    /\ Playing
    /\ last.op = "from_board"
    /\ Goal = <<Theseus[1], Theseus[2] + 1>>
    /\ Minotaur = <<Theseus[1], Theseus[2] + 2>>

(* C5: when Theseus's column and row both differ from the Minotaur's and   *)
(* both the horizontal and the vertical tile one step toward Theseus are   *)
(* in bounds and not walls, minotaur_move changes only the Minotaur's      *)
(* column, by one toward Theseus.                                          *)
HorizontalTarget ==
    <<PreMinotaur[1], PreMinotaur[2] + Sgn(PreTheseus[2] - PreMinotaur[2])>>
VerticalTarget ==
    <<PreMinotaur[1] + Sgn(PreTheseus[1] - PreMinotaur[1]), PreMinotaur[2]>>
ColumnsDiffer == PreTheseus[2] # PreMinotaur[2]
RowsDiffer == PreTheseus[1] # PreMinotaur[1]

C5_Diagonal ==
    /\ last.op = "minotaur_move"
    /\ ColumnsDiffer /\ RowsDiffer
    /\ Enterable(HorizontalTarget) /\ Enterable(VerticalTarget)

C5_HorizontalPriority ==
    C5_Diagonal =>
        /\ Minotaur[1] = PreMinotaur[1]
        /\ Minotaur[2] = PreMinotaur[2] + Sgn(PreTheseus[2] - PreMinotaur[2])

C5_Witness == C5_Diagonal /\ Minotaur = HorizontalTarget

(* C6: minotaur_move takes the vertical step toward Theseus if and only if *)
(* the rows differ, the vertical target is in bounds and not a wall, and   *)
(* the horizontal step was not attempted (columns equal) or was blocked;   *)
(* when neither step is applicable and unblocked the Minotaur stays.       *)
C6_VerticalDue ==
    /\ RowsDiffer
    /\ Enterable(VerticalTarget)
    /\ (~ColumnsDiffer \/ ~Enterable(HorizontalTarget))

C6_VerticalFallback ==
    last.op = "minotaur_move" =>
        /\ C6_VerticalDue => Minotaur = VerticalTarget
        /\ Minotaur[1] # PreMinotaur[1] => C6_VerticalDue
        /\ (/\ ~(ColumnsDiffer /\ Enterable(HorizontalTarget))
            /\ ~(RowsDiffer /\ Enterable(VerticalTarget)))
                => Minotaur = PreMinotaur

\* the horizontal target is a wall, the Minotaur stepped vertically
C6_Witness ==
    /\ last.op = "minotaur_move"
    /\ ColumnsDiffer
    /\ InsideGrid(HorizontalTarget)
    /\ TileAt(HorizontalTarget) = "X"
    /\ RowsDiffer
    /\ Minotaur = VerticalTarget

---------------------------------------------------------------------------
(* The parser's errors.                                                    *)

\* some row differs in width from row 0 and no row before it holds an
\* invalid character or a second marker
C7_FirstErrorIsBadRow(t) ==
    \E r \in RowIds(t) :
        /\ BadRow(t, r)
        /\ \A p \in t.cells : p[1] < r => ~Offending(t, p)

(* C7, as claimed: from_board returns InvalidSize for every board text     *)
(* with zero lines, a zero-width first line, or any row whose character    *)
(* count differs from that of row 0.                                       *)
C7_AnyBadRowIsInvalidSize ==
    JustParsed =>
        LET t == Text
        IN  (\/ Len(t.rows) = 0
             \/ Len(t.rows[1]) = 0
             \/ \E r \in RowIds(t) : BadRow(t, r))
                => result.kind = "InvalidSize"

(* C7, amended: from_board returns InvalidSize for every board text with   *)
(* zero lines, a zero-width first line, or a row whose character count     *)
(* differs from that of row 0 when no earlier row holds an invalid         *)
(* character or a duplicate marker (the rows are checked in order, each    *)
(* row's width before its characters, and the first error is returned).    *)
C7_InvalidSize ==
    JustParsed =>
        LET t == Text
        IN  (\/ Len(t.rows) = 0
             \/ Len(t.rows[1]) = 0
             \/ C7_FirstErrorIsBadRow(t))
                => result.kind = "InvalidSize"

\* a second row of another width than the first, itself holding a character
\* outside the alphabet
C7_Witness ==
    /\ JustParsed
    /\ result.kind = "InvalidSize"
    /\ LET t == Text
       IN  /\ Len(t.rows) = 2
           /\ Len(t.rows[1]) > 0
           /\ BadRow(t, 1)
           /\ \E p \in t.cells : p[1] = 1 /\ Offending(t, p)

\* p holds a second k, the scan reaches it (rows 0..p[1] have the width of
\* row 0) and nothing before it in scan order is an invalid character or a
\* second marker
C8_FirstErrorIsDuplicate(t, k, p) ==
    /\ Ch(t, p) = k
    /\ IsDuplicate(t, p)
    /\ \A r \in 0..p[1] : ~BadRow(t, r)
    /\ \A q \in t.cells : Before(q, p) => ~Offending(t, q)

C9_MissingMarkers ==
    JustParsed =>
        LET t == Text
            clean == CleanText(t)
        IN  /\ result.kind = "NoTheseus" <=> (clean /\ ~Has(t, "T"))
            /\ result.kind = "NoMinotaur" <=> (clean /\ Has(t, "T") /\ ~Has(t, "M"))
            /\ result.kind = "NoGoal"
                    <=> (clean /\ Has(t, "T") /\ Has(t, "M") /\ ~Has(t, "G"))

\* a two-row board of walls and floor only: all three markers missing
C9_Witness ==
    /\ JustParsed
    /\ result.kind = "NoTheseus"
    /\ LET t == Text
       IN  /\ ~Has(t, "M")
           /\ ~Has(t, "G")
           /\ Has(t, "X")
           /\ Len(t.rows) = 2

(* C10: for every board text that is non-empty, rectangular, uses only X,  *)
(* space, G, T, M and holds exactly one each of T, M and G, from_board     *)
(* succeeds and the Game's Theseus, Minotaur and Goal positions are the    *)
(* (row, column) of the T, M and G characters, in bounds and not on a wall.*)
C10_WellFormed(t) ==
    /\ CleanText(t)
    /\ \A k \in Markers : Cardinality({p \in t.cells : Ch(t, p) = k}) = 1

C10_ParseValid ==
    JustParsed =>
        LET t == Text
        IN  C10_WellFormed(t) =>
                /\ result.kind = "Ok"
                /\ Theseus \in t.cells /\ Ch(t, Theseus) = "T"
                /\ Minotaur \in t.cells /\ Ch(t, Minotaur) = "M"
                /\ Goal \in t.cells /\ Ch(t, Goal) = "G"
                /\ \A p \in {Theseus, Minotaur, Goal} : Enterable(p)

\* a two-row maze just parsed, T in the second row and not in its first
\* column, a wall somewhere
C10_Witness ==
    /\ JustParsed
    /\ Playing
    /\ LET t == Text
       IN  /\ C10_WellFormed(t)
           /\ Has(t, "X")
    /\ Theseus[1] = 1
    /\ Theseus[2] > 0

---------------------------------------------------------------------------
(* Skip, the queries and the frame of the moves.                           *)

\* the coordinates asked about: every tile of the largest grid and one row
\* and one column outside it
Coords == (0..MaxRows) \X (0..MaxCols)

Abs(x) == IF x < 0 THEN -x ELSE x
\* Manhattan distance
Dist(p, q) == Abs(p[1] - q[1]) + Abs(p[2] - q[2])

\* what the static grid keeps of a character of the board text
StoredTile(ch) == IF ch \in {"T", "M"} THEN " " ELSE ch

(* C14: theseus_move(Skip) never changes Theseus's position, whatever the  *)
(* tiles around him.                                                       *)
C14_SkipNoOp ==
    (last.op = "theseus_move" /\ last.command = "Skip") => Theseus = PreTheseus

\* Skip played with a free tile below Theseus
C14_Witness ==
    /\ last.op = "theseus_move"
    /\ last.command = "Skip"
    /\ Enterable(<<PreTheseus[1] + 1, PreTheseus[2]>>)
    /\ Theseus = PreTheseus

(* C15: for every coordinate, Game::is_empty is true iff none of           *)
(* is_theseus, is_minotaur, is_wall and is_goal is; it follows the tokens  *)
(* laid over the static grid, not the stored tile alone: a T or M start    *)
(* tile, stored as Empty, is non-empty while occupied and empty once       *)
(* vacated.                                                                *)
C15_IsEmpty ==
    Playing =>
        LET t == Text
        IN  \A p \in Coords :
                /\ Game_is_empty(game, p[1], p[2])
                    <=> ~(\/ Game_is_theseus(game, p[1], p[2])
                          \/ Game_is_minotaur(game, p[1], p[2])
                          \/ Game_is_wall(game, p[1], p[2])
                          \/ Game_is_goal(game, p[1], p[2]))
                /\ (p \in t.cells /\ Ch(t, p) \in {"T", "M"})
                    => /\ Grid_is_empty(game.grid, p[1], p[2])
                       /\ Game_is_empty(game, p[1], p[2])
                            <=> (p # Theseus /\ p # Minotaur)

\* Theseus has left his start tile, which is now empty; the Minotaur is
\* still on his, which is not
C15_Witness ==
    /\ Playing
    /\ LET t == Text
       IN  /\ \E p \in t.cells :
                Ch(t, p) = "T" /\ p # Theseus /\ Game_is_empty(game, p[1], p[2])
           /\ Ch(t, Minotaur) = "M"
    /\ Grid_is_empty(game.grid, Minotaur[1], Minotaur[2])
    /\ ~Game_is_empty(game, Minotaur[1], Minotaur[2])

(* C16: the static grid stores the T and M start cells as Empty and the G  *)
(* cell as Goal, so in every reachable state the grid has exactly one Goal *)
(* tile and Game::is_goal is true exactly at the Goal position status()    *)
(* uses.                                                                   *)
C16_GoalTile ==
    Playing =>
        LET t == Text
        IN  /\ \A p \in t.cells : Ch(t, p) \in {"T", "M"} => TileAt(p) = " "
            /\ \A p \in t.cells : Ch(t, p) = "G" => TileAt(p) = "G"
            /\ Cardinality({i \in 1..Len(game.grid.cells) : game.grid.cells[i] = "G"}) = 1
            /\ \A p \in Coords : Game_is_goal(game, p[1], p[2]) <=> p = Goal

\* Theseus stands on the Goal tile, which is_goal still reports
C16_Witness ==
    /\ Playing
    /\ last.op = "theseus_move"
    /\ Theseus = Goal
    /\ Game_is_goal(game, Theseus[1], Theseus[2])
    /\ status(game) = "Win"

(* C17: the grid and the Goal position never change after construction:    *)
(* every theseus_move and minotaur_move leaves width, height, tiles and    *)
(* Goal as they were; theseus_move leaves the Minotaur where he was and    *)
(* minotaur_move leaves Theseus where he was.                              *)
C17_Frame ==
    /\ Playing =>
        /\ game.grid = from_board(board).game.grid
        /\ Goal = <<from_board(board).game.goal_row, from_board(board).game.goal_col>>
    /\ last.op \in {"theseus_move", "minotaur_move"} =>
        /\ game.grid = last.pre.grid
        /\ Goal = <<last.pre.goal_row, last.pre.goal_col>>
    /\ last.op = "theseus_move" => Minotaur = PreMinotaur
    /\ last.op = "minotaur_move" => Theseus = PreTheseus

\* the Minotaur has just moved, after Theseus had left his start tile
C17_Witness ==
    /\ last.op = "minotaur_move"
    /\ Minotaur # PreMinotaur
    /\ Theseus = PreTheseus
    /\ Ch(Text, Theseus) # "T"

(* C18: the grid of a parsed Game holds exactly width * height tiles, so   *)
(* Grid::get returns the tile at index row * width + col for every         *)
(* coordinate in bounds (the tile of that row and column of the text) and  *)
(* the absent result for every coordinate out of bounds, never indexing    *)
(* outside the tile array.                                                 *)
C18_GridGet ==
    Playing =>
        LET t == Text
            grid == game.grid
        IN  /\ grid.height = Len(t.rows)
            /\ grid.width = Len(t.rows[1])
            /\ Len(grid.cells) = grid.width * grid.height
            /\ \A p \in Coords :
                IF p[1] < grid.height /\ p[2] < grid.width
                THEN /\ p[1] * grid.width + p[2] + 1 \in 1..Len(grid.cells)
                     /\ get(grid, p[1], p[2]) = Some(grid.cells[p[1] * grid.width + p[2] + 1])
                     /\ get(grid, p[1], p[2]) = Some(StoredTile(Ch(t, p)))
                ELSE get(grid, p[1], p[2]) = None

\* a grid of two rows of three tiles, a wall in its last tile; the row
\* below it and the column right of it are absent
C18_Witness ==
    /\ Playing
    /\ game.grid.height = 2
    /\ game.grid.width = 3
    /\ get(game.grid, 1, 2) = Some("X")
    /\ get(game.grid, 2, 0) = None
    /\ get(game.grid, 0, 3) = None

(* C19: minotaur_move never increases the Manhattan distance between the   *)
(* Minotaur and Theseus; when the Minotaur's position changes he is on an  *)
(* orthogonally adjacent tile and the distance is smaller by exactly 1;    *)
(* when he is already on Theseus's tile he does not move.                  *)
C19_Chase ==
    last.op = "minotaur_move" =>
        /\ Dist(Minotaur, Theseus) <= Dist(PreMinotaur, PreTheseus)
        /\ Minotaur # PreMinotaur =>
            /\ Dist(Minotaur, PreMinotaur) = 1
            /\ Dist(Minotaur, Theseus) = Dist(PreMinotaur, PreTheseus) - 1
        /\ PreMinotaur = PreTheseus => Minotaur = PreMinotaur

\* minotaur_move called with the Minotaur on Theseus's tile
C19_Witness ==
    /\ last.op = "minotaur_move"
    /\ PreMinotaur = PreTheseus
    /\ Minotaur = PreMinotaur
    /\ Theseus = Minotaur

---------------------------------------------------------------------------
(* The chase with Theseus standing still.                                  *)

\* in g, every step toward Theseus the Minotaur could try is blocked by a
\* wall or an edge
C20_Stuck(g) ==
    LET m == <<g.minotaur_row, g.minotaur_col>>
        t == <<g.theseus_row, g.theseus_col>>
        free(p) == /\ p[1] \in 0..(g.grid.height - 1)
                   /\ p[2] \in 0..(g.grid.width - 1)
                   /\ g.grid.cells[p[1] * g.grid.width + p[2] + 1] # "X"
    IN  /\ m # t
        /\ t[2] # m[2] => ~free(<<m[1], m[2] + Sgn(t[2] - m[2])>>)
        /\ t[1] # m[1] => ~free(<<m[1] + Sgn(t[1] - m[1]), m[2]>>)

\* the Minotaur of g has come to rest: on Theseus's tile or stuck
C20_AtRest(g) ==
    \/ g.minotaur_row = g.theseus_row /\ g.minotaur_col = g.theseus_col /\ status(g) = "Lose"
    \/ C20_Stuck(g)

\* from the present state, as many minotaur_move calls as the Manhattan
\* distance bring the Minotaur to rest, and once a call has not moved him
\* no later call does, whatever Theseus plays that keeps him in place
C20_WithinDistance ==
    Playing =>
        LET d == Dist(Minotaur, Theseus)
            end == Chase(game, d)
        IN  /\ minotaur_move(end) = end
            /\ C20_AtRest(end)
            /\ <<end.theseus_row, end.theseus_col>> = Theseus
            /\ \A k \in 0..d :
                minotaur_move(Chase(game, k)) = Chase(game, k) => end = Chase(game, k)
            /\ minotaur_move(game) = game =>
                /\ C20_AtRest(game)
                /\ \A command \in Commands :
                    LET g == theseus_move(game, command)
                    IN  <<g.theseus_row, g.theseus_col>> = Theseus => minotaur_move(g) = g

(* C20: if from some state on Theseus's position never changes, repeated   *)
(* minotaur_move calls reach a fixed point where the Minotaur no longer    *)
(* moves, on Theseus's tile (status Lose) or stuck behind a wall or edge,  *)
(* after at most as many steps as the Manhattan distance at that state; a  *)
(* Minotaur that failed to move once never moves again while Theseus       *)
(* stays put.                                                              *)
C20_ChaseEnds ==
    /\ []C20_WithinDistance
    /\ <>[][game.theseus_row' = game.theseus_row /\ game.theseus_col' = game.theseus_col]_vars
        => <>[](Playing => (minotaur_move(game) = game /\ C20_AtRest(game)))

\* the Minotaur, two tiles from Theseus, is stuck behind a wall after a
\* call that did not move him
C20_Witness ==
    /\ last.op = "minotaur_move"
    /\ Minotaur = PreMinotaur
    /\ Dist(Minotaur, Theseus) = 2
    /\ C20_Stuck(game)
    /\ \E p \in Coords : InsideGrid(p) /\ TileAt(p) = "X" /\ Dist(p, Minotaur) = 1

---------------------------------------------------------------------------
(* The end-to-end scenario.                                                *)

\* the commands played so far
Played == SubSeq(session.script, 1, session.played)
\* n times Down
Downs(n) == [i \in 1..n |-> "Down"]
\* a full turn has just ended
TurnEnded == session.full_turns /\ last.op = "minotaur_move"

(* C13: the scenario board parses with Theseus at (1,1), the Minotaur at   *)
(* (3,3) and the Goal at (4,3); Down issued three times moves Theseus to   *)
(* (4,1); played as full turns, the status after each Down is Continue     *)
(* until Theseus is on the Goal or the Minotaur has intercepted him: here  *)
(* Continue after the first turn, then Lose, the Minotaur reaching Theseus *)
(* at (3,1) in the second turn.                                            *)
C13_Scenario ==
    /\ Parsed => Playing
    /\ JustParsed =>
        (Theseus = <<1, 1>> /\ Minotaur = <<3, 3>> /\ Goal = <<4, 3>>)
    /\ (last.op = "theseus_move" /\ Played = Downs(3)) => Theseus = <<4, 1>>
    /\ (last.op = "theseus_move" /\ Played = Downs(2)) => Theseus = <<3, 1>>
    /\ (last.op = "theseus_move" /\ Played = Downs(1)) => Theseus = <<2, 1>>
    /\ (TurnEnded /\ Played = Downs(1)) =>
        (status(game) = "Continue" /\ Minotaur = <<3, 2>>)
    /\ (TurnEnded /\ Played = Downs(2)) =>
        (status(game) = "Lose" /\ Minotaur = <<3, 1>>)
    /\ (TurnEnded /\ Played = Downs(3)) =>
        (status(game) = "Lose" /\ Minotaur = <<4, 1>> /\ Theseus = <<4, 1>>)
    /\ (TurnEnded /\ \E n \in 1..MaxTurns : Played = Downs(n)) =>
        (status(game) = "Continue" \/ Theseus = Goal \/ Theseus = Minotaur)

\* Down played three times by theseus_move alone: Theseus at (4,1), the
\* Minotaur still at (3,3)
C13_Witness ==
    /\ ~session.full_turns
    /\ last.op = "theseus_move"
    /\ Played = Downs(3)
    /\ Theseus = <<4, 1>>
    /\ Minotaur = <<3, 3>>
    /\ status(game) = "Continue"


---------------------------------------------------------------------------
(* The command reader.                                                     *)

\* the first line of the source as the last call of input found it, with
\* its newline when it has one
FirstLine ==
    LET b == io.before
        ends == {i \in 1..Len(b) : b[i] = NL}
    IN  IF ends = {} THEN b
        ELSE SubSeq(b, 1, CHOOSE i \in ends : \A j \in ends : i <= j)

\* line is word, in any mix of cases, with nothing but whitespace around it
Spells(line, word) ==
    \E i \in 1..(Len(line) + 1) :
        /\ i + Len(word) - 1 <= Len(line)
        /\ \A j \in 1..(i - 1) : line[j] \in Whitespace
        /\ \A n \in 1..Len(word) :
            \/ line[i + n - 1] = word[n]
            \/ /\ IsIn(word[n], Lowers)
               /\ line[i + n - 1] = Uppers[Letter(word[n], Lowers)]
        /\ \A j \in (i + Len(word))..Len(line) : line[j] \in Whitespace

SpellsOneOf(line, words) == \E word \in words : Spells(line, word)

\* C11: one call of input takes exactly one line from the source: what the
\* source holds after the call is what it held before without its first
\* line, so the next call decodes the next line.
C11_OneLinePerCall ==
    io.called =>
        io.stdin = SubSeq(io.before, Len(FirstLine) + 1, Len(io.before))

\* a call on a source of two lines has returned the first line's command
C11_Witness ==
    /\ io.called
    /\ io.ret = Some("Up")
    /\ Len(io.before) > Len(FirstLine)

\* C12: a line decodes, whatever its case and the whitespace around it, to
\* Up for w and up, Down for s and down, Left for a and left, Right for d
\* and right, Skip for the empty line, wait, skip and "."; q, quit, exit
\* and any other text give no command, and so does the end of the source,
\* which an empty line is not.
C12_Decoding ==
    io.called =>
        LET line == FirstLine
            up == {<<"w">>, <<"u", "p">>}
            down == {<<"s">>, <<"d", "o", "w", "n">>}
            left == {<<"a">>, <<"l", "e", "f", "t">>}
            right == {<<"d">>, <<"r", "i", "g", "h", "t">>}
            skip == {<< >>, <<"w", "a", "i", "t">>, <<"s", "k", "i", "p">>, <<".">>}
            quit == {<<"q">>, <<"q", "u", "i", "t">>, <<"e", "x", "i", "t">>}
        IN  IF Len(io.before) = 0 THEN io.ret = None
            ELSE /\ SpellsOneOf(line, up) => io.ret = Some("Up")
                 /\ SpellsOneOf(line, down) => io.ret = Some("Down")
                 /\ SpellsOneOf(line, left) => io.ret = Some("Left")
                 /\ SpellsOneOf(line, right) => io.ret = Some("Right")
                 /\ SpellsOneOf(line, skip) => io.ret = Some("Skip")
                 /\ SpellsOneOf(line, quit) => io.ret = None
                 /\ ~SpellsOneOf(line, up \cup down \cup left \cup right \cup skip)
                        => io.ret = None

\* the line " UP" followed by a carriage return has been decoded to Up
C12_Witness ==
    /\ io.called
    /\ Len(io.before) >= 5
    /\ SubSeq(io.before, 1, 5) = <<" ", "U", "P", "\r", "\n">>
    /\ io.ret = Some("Up")

====
